---- MODULE Spec2Model ----
(***************************************************************************)
(* The entry-publication pipeline of the p2panda node (aquadoggo):         *)
(* panda_publishEntry, src/aquadoggo/src/rpc/methods/publish_entry.rs.     *)
(*                                                                         *)
(* The database is the pair (entries, logs).  A request is a task that     *)
(* walks through publish_entry one database call (one .await) at a time.   *)
(* Spec runs one request at a time, each to completion; SpecC interleaves  *)
(* the database calls of several requests.                                 *)
(*                                                                         *)
(* An entry is modelled by what decode_entry yields for a well-formed,     *)
(* correctly signed entry whose message hash matches: author, schema of    *)
(* the message, log_id, seq_num, the claimed backlink and skiplink hashes  *)
(* and the payload.  A hash is an injective content address.               *)
(*                                                                         *)
(* SpecM hands events to materialize (src/aquadoggo/src/materializer.rs),  *)
(* one call after the other; SpecMC interleaves the statements of two      *)
(* calls for one record.  SpecA is the ApiService of                       *)
(* src/node/src/rpc/api.rs with its clients; SpecAF adds the fairness of   *)
(* the executor.                                                           *)
(***************************************************************************)
EXTENDS Integers, Sequences, FiniteSets, Bags, TLC

\* entries: the rows of the entry store; logs: the rows of the log registry;
\* task: the requests being served; started: the requests received so far.
VARIABLES entries, logs, task, started

\* tables: the schema tables of the materializer, by table name; applied: the
\* event materialize was last called with, and how the call ended; running:
\* the process is up.
VARIABLES tables, applied, running

\* service: the task ApiService::new spawns; channel: the messages waiting in
\* the service channel; call: the get_entry_args calls of the clients.
VARIABLES service, channel, call

\* calls: the calls of materialize that run at the same time; base: the tables
\* as they were when those calls began.
VARIABLES calls, base

vars == <<entries, logs, task, started, tables, applied, running,
          service, channel, call, calls, base>>

pubVars == <<entries, logs, task, started>>
matVars == <<tables, applied, running, calls, base>>
apiVars == <<service, channel, call>>

(* ---------------------------------------------------------------- bounds *)
\* Spec: the highest seq_num a client sends, and the rows the store holds at most.
MaxSeq == 5
MaxEntries == 5
\* SpecC: the requests received in all, and the highest seq_num a client sends.
MaxRequests == 2
MaxSeqC == 2
\* SpecM: the highest seq_num of a materialized event.
MaxSeqM == 2

Authors == {"a1"}
Schemas == {"s1", "s2"}
LogIds == {1, 5}
Payloads == {"p1"}
PayloadsC == {"p1", "p2"}
Procs == {1, 2}
SchemasM == {"s1"}
\* Hashes of Create entries (the record ids), and of an Update or Delete entry.
RecordIds == {"h1", "h2"}
LaterHashes == {"h3"}
Texts == {"m1", "m2"}
Dates == {"d1"}
Clients == {1, 2, 3}

(* ------------------------------------------------------- value types    *)
None == <<>>
Some(x) == <<x>>

\* Content address of an entry: deterministic and collision free.
Hash(e) == [digest |-> e]

\* An entry this node never stores; its hash is a link that resolves to nothing.
Foreign ==
    [author |-> "nobody", schema |-> "s0", log_id |-> 0, seq_num |-> 0,
     backlink |-> None, skiplink |-> None, payload |-> "p0"]

\* lipmaa(n): the skip-list position of entry n (4 -> 1, 8 -> 4, 13 -> 4).
RECURSIVE LipmaaGrow(_, _, _)
LipmaaGrow(n, m, po3) ==
    IF m < n THEN LipmaaGrow(n, ((po3 * 3) - 1) \div 2, po3 * 3) ELSE <<m, po3>>

RECURSIVE LipmaaJump(_, _, _)
LipmaaJump(x, m, po3) ==
    IF x # 0
    THEN LET m2 == (po3 - 1) \div 2
         IN  LipmaaJump(x % m2, m2, po3 \div 3)
    ELSE IF m # po3 THEN m ELSE po3

Lipmaa(n) ==
    LET g == LipmaaGrow(n, 1, 3)
        m == g[1]
        po3 == g[2] \div 3
    IN  IF m = n THEN n - po3 ELSE n - LipmaaJump(n, m, po3)

\* A skiplink is carried only where it would not duplicate the backlink.
IsLipmaaRequired(n) == n > 1 /\ Lipmaa(n) # n - 1

(* ------------------------------------------------------- Log registry   *)
\* Log::get
LogGet(lg, author, schema) ==
    LET rows == {r \in lg : r.author = author /\ r.schema = schema}
    IN  IF rows = {} THEN {None} ELSE {Some(r.log_id) : r \in rows}

\* Log::insert: refused when the pair is registered with another log_id.
LogInsertFails(lg, author, schema, log_id) ==
    \E r \in lg : r.author = author /\ r.schema = schema /\ r.log_id # log_id

LogInsert(lg, author, schema, log_id) ==
    lg \cup {[author |-> author, schema |-> schema, log_id |-> log_id]}

(* ------------------------------------------------------- Entry store    *)
Rows(en) == BagToSet(en)

LogRows(en, author, log_id) ==
    {r \in Rows(en) : r.author = author /\ r.log_id = log_id}

\* Entry::at_seq_num: one row at the position, or nothing.
AtSeqNum(en, author, log_id, seq_num) ==
    LET rows == {r \in LogRows(en, author, log_id) : r.seq_num = seq_num}
    IN  IF rows = {} THEN {None} ELSE {Some(r) : r \in rows}

\* Entry::insert: appends one row.
EntryInsert(en, e) == en (+) SetToBag({e})

\* Entry::latest: a row with the highest seq_num of the log, or nothing.
Latest(en, author, log_id) ==
    LET rows == LogRows(en, author, log_id)
        top == {r \in rows : \A q \in rows : q.seq_num <= r.seq_num}
    IN  IF rows = {} THEN {None} ELSE {Some(r) : r \in top}

(* ------------------------------------------------------- publish_entry  *)
\* Entries a client can send: decodable, so links are absent on a first
\* entry, a backlink is claimed on every other, and a skiplink is claimed
\* exactly where lipmaa requires one.  Claimed links are hashes of stored
\* entries or of an entry the node does not hold.
Links(en) == {Some(Hash(r)) : r \in Rows(en)} \cup {Some(Hash(Foreign))}

Requests(en, payloads) ==
    {[author |-> a, schema |-> s, log_id |-> l, seq_num |-> n,
      backlink |-> b, skiplink |-> k, payload |-> p] :
        a \in Authors, s \in Schemas, l \in LogIds, n \in 1..MaxSeq,
        b \in Links(en) \cup {None}, k \in Links(en) \cup {None},
        p \in payloads}

Decodable(e) ==
    /\ (e.backlink = None) <=> (e.seq_num = 1)
    /\ (e.skiplink = None) <=> ~IsLipmaaRequired(e.seq_num)

NoResponse == None

\* The locals of one request.  schema_log_id, backlink, skiplink and latest are
\* what the database calls returned; registered tells that Log::insert was
\* called, overlap that another request was in flight at the same time.
Idle ==
    [pc |-> "idle", entry |-> None, schema_log_id |-> None,
     backlink |-> None, skiplink |-> None, latest |-> None,
     result |-> "", response |-> NoResponse,
     registered |-> FALSE, overlap |-> FALSE]

Begin(e) == [Idle EXCEPT !.pc = "get_log", !.entry = Some(e)]

Fail(t, error) == [t EXCEPT !.pc = "done", !.result = error]

\* Variant: the claimed log_id is compared on a first entry only.
IsInvalidLogIdOnFirst(schema_log_id, e) ==
    schema_log_id # None /\ schema_log_id # Some(e.log_id) /\ e.seq_num = 1

\* line 51: the claimed log_id differs from the registered one
IsInvalidLogId(schema_log_id, e) ==
    schema_log_id # None /\ schema_log_id # Some(e.log_id)

\* lines 47-53
GetLog(s) ==
    LET e == s.t.entry[1]
    IN  {[s EXCEPT !.t = IF IsInvalidLogId(g, e)
                         THEN Fail([s.t EXCEPT !.schema_log_id = g], "InvalidLogId")
                         ELSE [s.t EXCEPT !.schema_log_id = g, !.pc = "backlink"]] :
            g \in LogGet(s.logs, e.author, e.schema)}

\* Variant: the backlink is looked up at the skiplink's position.
SeqNumBacklinkAtLipmaa(n) == Lipmaa(n)

SeqNumBacklink(n) == n - 1

\* Variant: the skiplink is looked up where the next entry's skiplink lies.
SeqNumSkiplinkOfNext(n) == Lipmaa(n + 1)

SeqNumSkiplink(n) == Lipmaa(n)

\* lines 56-73
GetBacklink(s) ==
    LET e == s.t.entry[1]
    IN  IF e.seq_num # 1
        THEN {[s EXCEPT !.t = IF r = None
                             THEN Fail(s.t, "BacklinkMissing")
                             ELSE [s.t EXCEPT !.backlink = r, !.pc = "skiplink"]] :
                r \in AtSeqNum(s.entries, e.author, e.log_id, SeqNumBacklink(e.seq_num))}
        ELSE {[s EXCEPT !.t = [s.t EXCEPT !.backlink = None, !.pc = "skiplink"]]}

\* lines 75-92
GetSkiplink(s) ==
    LET e == s.t.entry[1]
    IN  IF e.seq_num # 1
        THEN {[s EXCEPT !.t = IF r = None
                             THEN Fail(s.t, "SkiplinkMissing")
                             ELSE [s.t EXCEPT !.skiplink = r, !.pc = "verify"]] :
                r \in AtSeqNum(s.entries, e.author, e.log_id, SeqNumSkiplink(e.seq_num))}
        ELSE {[s EXCEPT !.t = [s.t EXCEPT !.skiplink = None, !.pc = "verify"]]}

\* bamboo_rs_core::verify on the entry and the linked entries' bytes
Verify(e, skiplink, backlink) ==
    IF e.seq_num = 1
    THEN e.backlink = None /\ e.skiplink = None
    ELSE /\ backlink # None
         /\ e.backlink = Some(Hash(backlink[1]))
         /\ IsLipmaaRequired(e.seq_num) =>
                (skiplink # None /\ e.skiplink = Some(Hash(skiplink[1])))

\* Variant: the condition of line 103 inverted.
MustRegisterInverted(schema_log_id) == schema_log_id # None

\* Variant: the registry is written on every publish.
MustRegisterAlways(schema_log_id) == TRUE

\* line 103: the registry is written when the lookup found nothing
MustRegister(schema_log_id) == schema_log_id = None

\* Variant: the verifier's verdict is dropped.
VerifyAndRegisterUnverified(s) ==
    LET e == s.t.entry[1]
    IN  IF s.t.schema_log_id = None
        THEN IF LogInsertFails(s.logs, e.author, e.schema, e.log_id)
             THEN {[s EXCEPT !.t = Fail([s.t EXCEPT !.registered = TRUE], "StorageFailure")]}
             ELSE {[s EXCEPT !.t = [s.t EXCEPT !.pc = "insert", !.registered = TRUE],
                             !.logs = LogInsert(s.logs, e.author, e.schema, e.log_id)]}
        ELSE {[s EXCEPT !.t = [s.t EXCEPT !.pc = "insert"]]}

\* Variant: the log is registered before the entry is verified.
RegisterAndVerify(s) ==
    LET e == s.t.entry[1]
        lg == IF s.t.schema_log_id = None /\ ~LogInsertFails(s.logs, e.author, e.schema, e.log_id)
              THEN LogInsert(s.logs, e.author, e.schema, e.log_id)
              ELSE s.logs
        t == [s.t EXCEPT !.registered = (s.t.schema_log_id = None)]
    IN  IF s.t.schema_log_id = None /\ LogInsertFails(s.logs, e.author, e.schema, e.log_id)
        THEN {[s EXCEPT !.t = Fail(t, "StorageFailure")]}
        ELSE IF ~Verify(e, s.t.skiplink, s.t.backlink)
        THEN {[s EXCEPT !.t = Fail(t, "ChainIntegrityFailure"), !.logs = lg]}
        ELSE {[s EXCEPT !.t = [t EXCEPT !.pc = "insert"], !.logs = lg]}

\* Variant: the error of Log::insert is dropped and the publish goes on.
VerifyAndRegisterUnchecked(s) ==
    LET e == s.t.entry[1]
    IN  IF ~Verify(e, s.t.skiplink, s.t.backlink)
        THEN {[s EXCEPT !.t = Fail(s.t, "ChainIntegrityFailure")]}
        ELSE IF MustRegister(s.t.schema_log_id)
        THEN {[s EXCEPT !.t = [s.t EXCEPT !.pc = "insert", !.registered = TRUE],
                        !.logs = IF LogInsertFails(s.logs, e.author, e.schema, e.log_id)
                                 THEN s.logs
                                 ELSE LogInsert(s.logs, e.author, e.schema, e.log_id)]}
        ELSE {[s EXCEPT !.t = [s.t EXCEPT !.pc = "insert"]]}

\* lines 94-105
VerifyAndRegister(s) ==
    LET e == s.t.entry[1]
    IN  IF ~Verify(e, s.t.skiplink, s.t.backlink)
        THEN {[s EXCEPT !.t = Fail(s.t, "ChainIntegrityFailure")]}
        ELSE IF MustRegister(s.t.schema_log_id)
        THEN IF LogInsertFails(s.logs, e.author, e.schema, e.log_id)
             THEN {[s EXCEPT !.t = Fail([s.t EXCEPT !.registered = TRUE], "StorageFailure")]}
             ELSE {[s EXCEPT !.t = [s.t EXCEPT !.pc = "insert", !.registered = TRUE],
                             !.logs = LogInsert(s.logs, e.author, e.schema, e.log_id)]}
        ELSE {[s EXCEPT !.t = [s.t EXCEPT !.pc = "insert"]]}

\* lines 107-118
InsertEntry(s) ==
    {[s EXCEPT !.t = [s.t EXCEPT !.pc = "latest"],
               !.entries = EntryInsert(s.entries, s.t.entry[1])]}

\* lines 120-123
ReadLatest(s) ==
    LET e == s.t.entry[1]
    IN  {[s EXCEPT !.t = [s.t EXCEPT !.latest = r, !.pc = "respond"]] :
            r \in Latest(s.entries, e.author, e.log_id) \ {None}}

\* entry_args::determine_skiplink: the skiplink hash the next entry needs
DetermineSkiplink(en, latest) ==
    LET next == latest.seq_num + 1
    IN  IF IsLipmaaRequired(next)
        THEN {IF r = None THEN None ELSE Some(Hash(r[1])) :
                r \in AtSeqNum(en, latest.author, latest.log_id, SeqNumSkiplink(next))}
        ELSE {None}

\* lines 126-133
Response(e, latest, entry_hash_skiplink) ==
    [entry_hash_backlink |-> Some(Hash(e)),
     entry_hash_skiplink |-> entry_hash_skiplink,
     seq_num |-> latest.seq_num + 1,
     log_id |-> e.log_id]

\* lines 124-133
Respond(s) ==
    LET e == s.t.entry[1]
    IN  {[s EXCEPT !.t = [s.t EXCEPT !.pc = "done", !.result = "Ok",
                                     !.response = Some(Response(e, s.t.latest[1], k))]] :
            k \in DetermineSkiplink(s.entries, s.t.latest[1])}

\* One database call of publish_entry.
Step(s) ==
    CASE s.t.pc = "get_log" -> GetLog(s)
      [] s.t.pc = "backlink" -> GetBacklink(s)
      [] s.t.pc = "skiplink" -> GetSkiplink(s)
      [] s.t.pc = "verify" -> VerifyAndRegister(s)
      [] s.t.pc = "insert" -> InsertEntry(s)
      [] s.t.pc = "latest" -> ReadLatest(s)
      [] s.t.pc = "respond" -> Respond(s)
      [] OTHER -> {}

\* publish_entry run from its first line to its return, nothing in between.
RECURSIVE RunToEnd(_)
RunToEnd(s) ==
    IF s.t.pc = "done" THEN {s} ELSE UNION {RunToEnd(o) : o \in Step(s)}

(* ------------------------------------------------------- materializer   *)
\* src/aquadoggo/src/materializer.rs.  A field value is its kind and its value.
Text(v) == [kind |-> "Text", value |-> v]
Integer(v) == [kind |-> "Integer", value |-> v]

\* The values a client may put under a field name.
FieldValues(name) ==
    IF name = "message" THEN {Text(v) : v \in Texts} \cup {Integer(7)}
    ELSE {Text(v) : v \in Dates} \cup {Integer(7)}

\* message.fields(): absent, or a mapping over any of the two field names.
Fields ==
    {None} \cup
    {Some(f) : f \in UNION {{g \in [d -> UNION {FieldValues(n) : n \in d}] :
                                \A n \in d : g[n] \in FieldValues(n)} :
                            d \in SUBSET {"message", "date"}}}

\* The arguments of materialize: the entry's hash, seq_num and author, and its
\* message.  A Create names no record; an Update or a Delete names its record.
Events ==
    {[entry_hash |-> h, seq_num |-> n, author |-> a,
      message |-> [action |-> "Create", schema |-> s, id |-> None, fields |-> f]] :
        h \in RecordIds, n \in 1..MaxSeqM, a \in Authors, s \in SchemasM, f \in Fields}
    \cup
    {[entry_hash |-> h, seq_num |-> n, author |-> a,
      message |-> [action |-> c, schema |-> s, id |-> Some(x), fields |-> f]] :
        h \in LaterHashes, n \in 1..MaxSeqM, a \in Authors, s \in SchemasM,
        f \in Fields, c \in {"Update", "Delete"}, x \in RecordIds}

\* line 21
TableName(schema) == schema

\* lines 24-38: CREATE TABLE IF NOT EXISTS
CreateTable(tb, name) == IF name \in DOMAIN tb THEN tb ELSE tb @@ (name :> {})

\* Variant: every event is filed under the hash of its own entry.
RowIdOfEntry(ev) == ev.entry_hash

\* lines 40-43
RowId(ev) ==
    IF ev.message.action = "Create" THEN ev.entry_hash ELSE ev.message.id[1]

\* lines 45-63: the arms of the two matches that do not panic
IsText(fields, name) == name \in DOMAIN fields /\ fields[name].kind = "Text"

\* lines 65-78: COUNT(id) ... WHERE id = $1
SelectCount(rows, id) == Cardinality({r \in rows : r.id = id})

\* line 81
IsAlreadyInitialized(count) == count = 1

\* Variant: the column list without its last comma, so that the statement runs.
UpdateRowSet(rows, id, message, date, seq_num) ==
    Some({IF r.id = id
          THEN [r EXCEPT !.message = message, !.date = date, !.seq_num = seq_num]
          ELSE r : r \in rows})

\* Variant: the statement runs and moves the stored seq_num on by one.
UpdateRowAdvancing(rows, id, message, date, seq_num) ==
    Some({IF r.id = id
          THEN [r EXCEPT !.message = message, !.date = date, !.seq_num = r.seq_num + 1]
          ELSE r : r \in rows})

\* lines 83-100: UPDATE ... SET ( message, date, seq_num, ) = ($1, $2, $3)
\* WHERE id = $4.  The column list ends in a comma, which is no SQL: SQLite
\* (the engine of test_helpers.rs), PostgreSQL and MySQL refuse the statement
\* when it is prepared, execute returns the error and no row is written.
\* The rows the statement leaves, or None when it is refused.
UpdateRow(rows, id, message, date, seq_num) == None

\* Variant: the table is created without its primary key.
InsertRowNoKey(rows, id) == FALSE

\* line 32: PRIMARY KEY (id)
InsertRowFails(rows, id) == \E r \in rows : r.id = id

\* lines 102-117: INSERT INTO ... VALUES ($1, $2, $3, $4, $5)
InsertRow(rows, id, author, message, date, seq_num) ==
    rows \cup {[id |-> id, author |-> author, message |-> message,
                date |-> date, seq_num |-> seq_num]}

\* lines 7-121: the tables materialize leaves, and how it ends: "Ok", "Err"
\* (the ? of a failed statement) or "Panic" (an unwrap or a panic!).
Materialize(tb, ev) ==
    IF ev.message.fields = None
    THEN [tables |-> tb, result |-> "Panic"]
    ELSE LET fields == ev.message.fields[1]
             name == TableName(ev.message.schema)
             created == CreateTable(tb, name)
             id == RowId(ev)
         IN  IF ~IsText(fields, "message") \/ ~IsText(fields, "date")
             THEN [tables |-> created, result |-> "Panic"]
             ELSE LET field_message == fields["message"].value
                      field_date == fields["date"].value
                      rows == created[name]
                      updated == UpdateRow(rows, id, field_message, field_date,
                                           ev.seq_num)
                  IN  IF IsAlreadyInitialized(SelectCount(rows, id))
                      THEN IF updated = None
                           THEN [tables |-> created, result |-> "Err"]
                           ELSE [tables |-> [created EXCEPT ![name] = updated[1]],
                                 result |-> "Ok"]
                      ELSE IF InsertRowFails(rows, id)
                      THEN [tables |-> created, result |-> "Err"]
                      ELSE [tables |-> [created EXCEPT ![name] =
                                InsertRow(rows, id, ev.author, field_message,
                                          field_date, ev.seq_num)],
                            result |-> "Ok"]

\* The locals of one call of materialize; count is what the SELECT returned.
NoCallM == [pc |-> "idle", event |-> None, count |-> 0, result |-> ""]

EndM(c, result) == [c EXCEPT !.pc = "done", !.result = result]

\* lines 15-38: up to the first statement, CREATE TABLE IF NOT EXISTS
MatCreate(s) ==
    LET ev == s.c.event[1]
    IN  IF ev.message.fields = None
        THEN [s EXCEPT !.c = EndM(s.c, "Panic")]
        ELSE [s EXCEPT !.c = [s.c EXCEPT !.pc = "select"],
                       !.tables = CreateTable(s.tables, TableName(ev.message.schema))]

\* lines 40-78: the id, the two fields, and the SELECT
MatSelect(s) ==
    LET ev == s.c.event[1]
        fields == ev.message.fields[1]
        rows == s.tables[TableName(ev.message.schema)]
    IN  IF ~IsText(fields, "message") \/ ~IsText(fields, "date")
        THEN [s EXCEPT !.c = EndM(s.c, "Panic")]
        ELSE [s EXCEPT !.c = [s.c EXCEPT !.pc = "write",
                                         !.count = SelectCount(rows, RowId(ev))]]

\* lines 80-121: the UPDATE or the INSERT, as the count read before tells
MatWrite(s) ==
    LET ev == s.c.event[1]
        fields == ev.message.fields[1]
        name == TableName(ev.message.schema)
        rows == s.tables[name]
        id == RowId(ev)
        field_message == fields["message"].value
        field_date == fields["date"].value
        updated == UpdateRow(rows, id, field_message, field_date, ev.seq_num)
    IN  IF IsAlreadyInitialized(s.c.count)
        THEN IF updated = None
             THEN [s EXCEPT !.c = EndM(s.c, "Err")]
             ELSE [s EXCEPT !.c = EndM(s.c, "Ok"), !.tables[name] = updated[1]]
        ELSE IF InsertRowFails(rows, id)
        THEN [s EXCEPT !.c = EndM(s.c, "Err")]
        ELSE [s EXCEPT !.c = EndM(s.c, "Ok"),
                       !.tables[name] = InsertRow(rows, id, ev.author, field_message,
                                                  field_date, ev.seq_num)]

\* One statement of materialize.
StepM(s) ==
    CASE s.c.pc = "create" -> MatCreate(s)
      [] s.c.pc = "select" -> MatSelect(s)
      [] s.c.pc = "write" -> MatWrite(s)

(* ------------------------------------------------------- ApiService     *)
\* src/node/src/rpc/api.rs.  The raw params of a request: an author and a
\* schema, or None for params that do not parse as EntryArgsRequest.
ParamsRaw ==
    {None} \cup {Some([author |-> a, schema |-> s]) : a \in Authors, s \in Schemas}

\* lines 47-52: the answer of the service task
EntryArgsResponse ==
    [encoded_entry_backlink |-> Some("encoded_entry_backlink"),
     encoded_entry_skiplink |-> Some("skiplink"),
     last_seq_num |-> 1,
     log_id |-> 0]

\* A client that has sent no request.  params is what the request carries,
\* back_channel what the back channel of the call holds, result how the call
\* ended: "Ok" with a response, "InvalidParams", or "Panic".
NoCall ==
    [pc |-> "idle", params |-> None, back_channel |-> None,
     result |-> "", response |-> NoResponse]

(* ------------------------------------------------------- state machine  *)
Init ==
    /\ entries = EmptyBag
    /\ logs = {}
    /\ task = [p \in Procs |-> Idle]
    /\ started = 0
    /\ tables = <<>>
    /\ applied = None
    /\ running = TRUE
    /\ service = [pc |-> "recv", back_channel |-> None]
    /\ channel = <<>>
    /\ call = [c \in Clients |-> NoCall]
    /\ calls = [p \in Procs |-> NoCallM]
    /\ base = <<>>

Db(p) == [t |-> task[p], entries |-> entries, logs |-> logs]

Commit(p, o) ==
    /\ task' = [task EXCEPT ![p] = o.t]
    /\ entries' = o.entries
    /\ logs' = o.logs

\* A whole request, served alone.
PublishEntry ==
    /\ \A p \in Procs : task[p].pc = "idle"
    /\ BagCardinality(entries) < MaxEntries
    /\ \E e \in Requests(entries, Payloads) :
        /\ Decodable(e)
        /\ \E o \in RunToEnd([t |-> Begin(e), entries |-> entries, logs |-> logs]) :
            Commit(1, o)
    /\ UNCHANGED <<started, matVars, apiVars>>

\* The response or the error goes back to the client and the task ends.
Reply(p) ==
    /\ task[p].pc = "done"
    /\ task' = [task EXCEPT ![p] = Idle]
    /\ UNCHANGED <<entries, logs, started, matVars, apiVars>>

Next == PublishEntry \/ \E p \in Procs : Reply(p)

Spec == Init /\ [][Next]_vars

\* The requests between their first line and their return.
InFlight == {q \in Procs : task[q].pc \notin {"idle", "done"}}

\* Requests served concurrently: a request arrives ...
Arrive(p) ==
    /\ task[p].pc = "idle"
    /\ started < MaxRequests
    /\ \E e \in Requests(entries, PayloadsC) :
        /\ Decodable(e)
        /\ e.seq_num <= MaxSeqC
        /\ task' = [q \in Procs |->
                        IF q = p THEN [Begin(e) EXCEPT !.overlap = InFlight # {}]
                        ELSE IF q \in InFlight THEN [task[q] EXCEPT !.overlap = TRUE]
                        ELSE task[q]]
    /\ started' = started + 1
    /\ UNCHANGED <<entries, logs, matVars, apiVars>>

\* ... and its database calls interleave with those of the others.
Await(p) ==
    /\ task[p].pc \notin {"idle", "done"}
    /\ \E o \in Step(Db(p)) : Commit(p, o)
    /\ UNCHANGED <<started, matVars, apiVars>>

NextC == \E p \in Procs : Arrive(p) \/ Await(p) \/ Reply(p)

SpecC == Init /\ [][NextC]_vars

\* The call before this one materialized the Create the event ev updates: it
\* ended well, its entry's hash is the record ev names, its seq_num is lower.
FollowsCreate(before, ev) ==
    /\ before.result = "Ok"
    /\ before.event.message.action = "Create"
    /\ before.event.message.schema = ev.message.schema
    /\ ev.message.id = Some(before.event.entry_hash)
    /\ before.event.seq_num < ev.seq_num

\* What the call before this one was to the event ev.
Prior(ev) ==
    IF applied = None THEN "none"
    ELSE IF applied[1].event = ev THEN "same"
    ELSE IF FollowsCreate(applied[1], ev) THEN "create"
    ELSE "other"

\* The materializer is handed one event after the other.  A panic ends the
\* calling task, and with it the process when the build aborts on panics.
ApplyEvent ==
    /\ running
    /\ \E ev \in Events :
        LET o == Materialize(tables, ev)
        IN  /\ tables' = o.tables
            /\ applied' = Some([event |-> ev, result |-> o.result,
                                prior |-> Prior(ev)])
            /\ running' \in (IF o.result = "Panic" THEN BOOLEAN ELSE {TRUE})
    /\ UNCHANGED <<pubVars, apiVars, calls, base>>

NextM == ApplyEvent

SpecM == Init /\ [][NextM]_vars

\* The events of the concurrent calls: no fields, a non-text message, or both
\* fields as text.
EventsC ==
    {ev \in Events :
        \/ ev.message.fields = None
        \/ /\ DOMAIN ev.message.fields[1] = {"message", "date"}
           /\ IsText(ev.message.fields[1], "date")}

\* Two calls of materialize begin, for events of one schema and one record.
BeginPair ==
    /\ running
    /\ \A p \in Procs : calls[p].pc = "idle"
    /\ \E e1, e2 \in EventsC :
        /\ e1.message.schema = e2.message.schema
        /\ RowId(e1) = RowId(e2)
        /\ calls' = [p \in Procs |->
                        [NoCallM EXCEPT !.pc = "create",
                                        !.event = Some(IF p = 1 THEN e1 ELSE e2)]]
    /\ base' = tables
    /\ UNCHANGED <<tables, applied, running, pubVars, apiVars>>

\* A call runs its next statement; the statements of the two calls interleave.
AwaitM(p) ==
    /\ running
    /\ calls[p].pc \notin {"idle", "done"}
    /\ LET o == StepM([c |-> calls[p], tables |-> tables])
       IN  /\ calls' = [calls EXCEPT ![p] = o.c]
           /\ tables' = o.tables
           /\ running' \in (IF o.c.result = "Panic" THEN BOOLEAN ELSE {TRUE})
    /\ UNCHANGED <<applied, base, pubVars, apiVars>>

\* Both calls have returned.
EndPair ==
    /\ running
    /\ \A p \in Procs : calls[p].pc = "done"
    /\ calls' = [p \in Procs |-> NoCallM]
    /\ UNCHANGED <<tables, applied, running, base, pubVars, apiVars>>

NextMC == BeginPair \/ EndPair \/ \E p \in Procs : AwaitM(p)

SpecMC == Init /\ [][NextMC]_vars

\* lines 73-78: a request arrives; params that do not parse are answered with
\* the error at once, for the others the back channel is created.
GetEntryArgs(c) ==
    /\ call[c].pc = "idle"
    /\ \E params_raw \in ParamsRaw :
        call' = [call EXCEPT ![c] =
                    IF params_raw = None
                    THEN [@ EXCEPT !.pc = "done", !.result = "InvalidParams"]
                    ELSE [@ EXCEPT !.pc = "send", !.params = params_raw]]
    /\ UNCHANGED <<service, channel, pubVars, matVars>>

\* lines 80-83: the message goes into the service channel; the send fails, and
\* the unwrap panics, once the receiving end is dropped.
SendToService(c) ==
    /\ call[c].pc = "send"
    /\ IF service.pc = "ended"
       THEN /\ call' = [call EXCEPT ![c] = [@ EXCEPT !.pc = "done", !.result = "Panic"]]
            /\ UNCHANGED channel
       ELSE /\ call' = [call EXCEPT ![c] = [@ EXCEPT !.pc = "recv"]]
            /\ channel' = Append(channel, c)
    /\ UNCHANGED <<service, pubVars, matVars>>

\* line 85: the call blocks until its back channel holds the answer
RecvFromService(c) ==
    /\ call[c].pc = "recv"
    /\ call[c].back_channel # None
    /\ call' = [call EXCEPT ![c] = [@ EXCEPT !.pc = "done", !.result = "Ok",
                                             !.response = call[c].back_channel,
                                             !.back_channel = None]]
    /\ UNCHANGED <<service, channel, pubVars, matVars>>

\* lines 85-86: the future of the call resolves (or the panic unwinds), and the
\* client is free to send its next request.
Return(c) ==
    /\ call[c].pc = "done"
    /\ call' = [call EXCEPT ![c] = NoCall]
    /\ UNCHANGED <<service, channel, pubVars, matVars>>

\* lines 44-45: the service task takes one message from its channel
ServiceRecv ==
    /\ service.pc = "recv"
    /\ channel # <<>>
    /\ service' = [pc |-> "send", back_channel |-> Some(Head(channel))]
    /\ channel' = Tail(channel)
    /\ UNCHANGED <<call, pubVars, matVars>>

\* lines 46-58: it answers on the back channel of the message, and the task
\* ends: the match is not in a loop, the receiving end is dropped with it.
ServiceSend ==
    /\ service.pc = "send"
    /\ call' = [call EXCEPT ![service.back_channel[1]] =
                    [@ EXCEPT !.back_channel = Some(EntryArgsResponse)]]
    /\ service' = [pc |-> "ended", back_channel |-> None]
    /\ UNCHANGED <<channel, pubVars, matVars>>

NextA ==
    \/ ServiceRecv
    \/ ServiceSend
    \/ \E c \in Clients :
        GetEntryArgs(c) \/ SendToService(c) \/ RecvFromService(c) \/ Return(c)

SpecA == Init /\ [][NextA]_vars

\* The executor runs every task that can take a step: the service task, and
\* the calls that have been made.
FairA ==
    /\ WF_vars(ServiceRecv)
    /\ WF_vars(ServiceSend)
    /\ \A c \in Clients : WF_vars(SendToService(c)) /\ WF_vars(RecvFromService(c))

SpecAF == SpecA /\ FairA

(* ------------------------------------------------------- properties     *)
\* The request task p has returned from, with its entry and its response.
Returned(p) == task[p].pc = "done"
Succeeded(p) == Returned(p) /\ task[p].result = "Ok"
EntryOf(p) == task[p].entry[1]
ResponseOf(p) == task[p].response[1]

\* C1: every successful publish of an entry E with seq_num n and log_id L
\* answers entryHashBacklink = hash(E), seqNum = n + 1 and logId = L.
C1_ResponseFollowsEntry ==
    \A p \in Procs :
        Succeeded(p) =>
            /\ ResponseOf(p).entry_hash_backlink = Some(Hash(EntryOf(p)))
            /\ ResponseOf(p).seq_num = EntryOf(p).seq_num + 1
            /\ ResponseOf(p).log_id = EntryOf(p).log_id

\* A step of Spec that serves one whole request.
ServedAlone == task[1].pc = "idle" /\ task'[1].pc = "done"

\* The log_ids the registry holds for the pair.
Registered(lg, author, schema) ==
    {r.log_id : r \in {q \in lg : q.author = author /\ q.schema = schema}}

\* The registry holds another log_id for the entry's pair than the entry claims.
Conflicts(lg, e) == \E l \in Registered(lg, e.author, e.schema) : l # e.log_id

HighestSeqNum(en, author, log_id) ==
    LET ns == {r.seq_num : r \in LogRows(en, author, log_id)}
    IN  IF ns = {} THEN 0 ELSE CHOOSE n \in ns : \A m \in ns : m <= n

C3_InvalidLogId ==
    [][(ServedAlone /\ Conflicts(logs, EntryOf(1)'))
        => /\ task'[1].result = "InvalidLogId"
           /\ entries' = entries
           /\ logs' = logs]_vars

\* A later entry with claimed links was refused for its log_id.
C3_Witness ==
    /\ Returned(1) /\ task[1].result = "InvalidLogId"
    /\ EntryOf(1).seq_num = 4 /\ EntryOf(1).skiplink # None
    /\ Conflicts(logs, EntryOf(1))

\* The rows stored at one position of a log.
StoredAt(en, author, log_id, seq_num) ==
    {r \in Rows(en) : r.author = author /\ r.log_id = log_id /\ r.seq_num = seq_num}

\* C4 as stated: an entry with seq_num n > 1 is refused with BacklinkMissing
\* whenever nothing is stored at n - 1 of its log, and nothing changes.
C4_BacklinkMissing ==
    [][(ServedAlone /\ EntryOf(1)'.seq_num > 1
            /\ StoredAt(entries, EntryOf(1)'.author, EntryOf(1)'.log_id,
                        EntryOf(1)'.seq_num - 1) = {})
        => /\ task'[1].result = "BacklinkMissing"
           /\ entries' = entries
           /\ logs' = logs]_vars

\* C4 amended: such an entry is refused with InvalidLogId when its log_id
\* conflicts with the registry and with BacklinkMissing otherwise; either way
\* store and registry are unchanged, and so are the log's latest entry and
\* next sequence number.
C4_BacklinkMissingAfterLogId ==
    [][(ServedAlone /\ EntryOf(1)'.seq_num > 1
            /\ StoredAt(entries, EntryOf(1)'.author, EntryOf(1)'.log_id,
                        EntryOf(1)'.seq_num - 1) = {})
        => LET e == EntryOf(1)'
           IN  /\ task'[1].result =
                    IF Conflicts(logs, e) THEN "InvalidLogId" ELSE "BacklinkMissing"
               /\ entries' = entries
               /\ logs' = logs
               /\ Latest(entries', e.author, e.log_id) = Latest(entries, e.author, e.log_id)
               /\ HighestSeqNum(entries', e.author, e.log_id)
                    = HighestSeqNum(entries, e.author, e.log_id)]_vars

\* An entry two positions ahead of a log of two was refused for its backlink.
C4_Witness ==
    /\ Returned(1) /\ task[1].result = "BacklinkMissing"
    /\ EntryOf(1).seq_num = 4
    /\ HighestSeqNum(entries, EntryOf(1).author, EntryOf(1).log_id) = 2

\* The log holds exactly entry 1.
HoldsOnlyFirst(en, author, log_id) ==
    /\ \E r \in LogRows(en, author, log_id) :
            LogRows(en, author, log_id) = {r} /\ r.seq_num = 1 /\ CopiesIn(r, en) = 1

\* The claimed backlink is the hash of no stored entry.
BacklinkUnknown(en, e) == \A r \in Rows(en) : e.backlink # Some(Hash(r))

\* C5 as stated: with exactly entry 1 in the log, an entry 2 whose claimed
\* backlink matches no stored entry is refused with BacklinkMissing and the
\* log's next sequence number is still 2.
C5_UnknownBacklinkMissing ==
    [][(ServedAlone /\ EntryOf(1)'.seq_num = 2
            /\ HoldsOnlyFirst(entries, EntryOf(1)'.author, EntryOf(1)'.log_id)
            /\ BacklinkUnknown(entries, EntryOf(1)'))
        => /\ task'[1].result = "BacklinkMissing"
           /\ entries' = entries
           /\ HighestSeqNum(entries', EntryOf(1)'.author, EntryOf(1)'.log_id) + 1 = 2]_vars

\* C5 amended: such an entry is refused by the verifier with a chain-integrity
\* error (with InvalidLogId when its log_id conflicts with the registry), never
\* with BacklinkMissing; the log is unchanged and its next sequence number is
\* still 2.
C5_UnknownBacklinkRejected ==
    [][(ServedAlone /\ EntryOf(1)'.seq_num = 2
            /\ HoldsOnlyFirst(entries, EntryOf(1)'.author, EntryOf(1)'.log_id)
            /\ BacklinkUnknown(entries, EntryOf(1)'))
        => LET e == EntryOf(1)'
           IN  /\ task'[1].result =
                    IF Conflicts(logs, e) THEN "InvalidLogId" ELSE "ChainIntegrityFailure"
               /\ entries' = entries
               /\ logs' = logs
               /\ HighestSeqNum(entries', e.author, e.log_id) + 1 = 2]_vars

\* An entry 2 with an unknown backlink was refused by the verifier, the log
\* holding entry 1 alone.
C5_Witness ==
    /\ Returned(1) /\ task[1].result = "ChainIntegrityFailure"
    /\ EntryOf(1).seq_num = 2
    /\ HoldsOnlyFirst(entries, EntryOf(1).author, EntryOf(1).log_id)
    /\ BacklinkUnknown(entries, EntryOf(1))

\* The claimed backlink differs from the hash of what is stored at n - 1.
BacklinkDiffers(en, e) ==
    LET rows == StoredAt(en, e.author, e.log_id, e.seq_num - 1)
    IN  rows # {} /\ \A r \in rows : e.backlink # Some(Hash(r))

\* The claimed skiplink differs from the hash of what is stored at lipmaa(n).
SkiplinkDiffers(en, e) ==
    LET rows == StoredAt(en, e.author, e.log_id, Lipmaa(e.seq_num))
    IN  e.skiplink # None /\ rows # {} /\ \A r \in rows : e.skiplink # Some(Hash(r))

\* C6 as stated: an entry n > 1 whose claimed backlink or skiplink differs from
\* the hash of the entry stored at n - 1 or lipmaa(n) is refused with a
\* chain-integrity error, and the refused publish writes nothing.
C6_MismatchIsChainIntegrity ==
    [][(ServedAlone /\ EntryOf(1)'.seq_num > 1
            /\ (BacklinkDiffers(entries, EntryOf(1)') \/ SkiplinkDiffers(entries, EntryOf(1)')))
        => /\ task'[1].result = "ChainIntegrityFailure"
           /\ entries' = entries
           /\ logs' = logs]_vars

\* C6 amended: such an entry is refused: with InvalidLogId when its log_id
\* conflicts with the registry, else with BacklinkMissing when nothing is stored
\* at n - 1, else with a chain-integrity error; the refused publish appends no
\* entry and registers no log.
C6_MismatchRejected ==
    [][(ServedAlone /\ EntryOf(1)'.seq_num > 1
            /\ (BacklinkDiffers(entries, EntryOf(1)') \/ SkiplinkDiffers(entries, EntryOf(1)')))
        => LET e == EntryOf(1)'
           IN  /\ task'[1].result =
                    IF Conflicts(logs, e) THEN "InvalidLogId"
                    ELSE IF StoredAt(entries, e.author, e.log_id, e.seq_num - 1) = {}
                         THEN "BacklinkMissing"
                    ELSE "ChainIntegrityFailure"
               /\ entries' = entries
               /\ logs' = logs]_vars

\* An entry 4 with the right backlink and a wrong skiplink was refused by the
\* verifier.
C6_Witness ==
    /\ Returned(1) /\ task[1].result = "ChainIntegrityFailure"
    /\ EntryOf(1).seq_num = 4
    /\ ~BacklinkDiffers(entries, EntryOf(1))
    /\ SkiplinkDiffers(entries, EntryOf(1))

\* C7: after a successful publish of the entry with seq_num n the response's
\* entryHashSkiplink is the hash of the entry stored at lipmaa(n + 1) of the log
\* when lipmaa(n + 1) differs from n, and absent otherwise.
C7_SkiplinkForNext ==
    \A p \in Procs :
        Succeeded(p) =>
            LET e == EntryOf(p)
                n == e.seq_num
            IN  IF Lipmaa(n + 1) # n
                THEN \E r \in StoredAt(entries, e.author, e.log_id, Lipmaa(n + 1)) :
                        ResponseOf(p).entry_hash_skiplink = Some(Hash(r))
                ELSE ResponseOf(p).entry_hash_skiplink = None

\* C8: every log holds exactly one entry for each seq_num 1..n.
C8_LogIsGapless ==
    \A a \in Authors, l \in LogIds :
        LET rows == LogRows(entries, a, l)
        IN  /\ \A r \in rows : CopiesIn(r, entries) = 1
            /\ \A r, q \in rows : r.seq_num = q.seq_num => r = q
            /\ {r.seq_num : r \in rows} = 1..Cardinality(rows)

\* C9: a pair once mapped to a log_id stays mapped to it and to nothing else,
\* and a publish writes the registry only when it found no mapping for its pair.
C9_FirstWriteWins ==
    [][/\ \A a \in Authors, sc \in Schemas :
            \A l \in Registered(logs, a, sc) : Registered(logs', a, sc) = {l}
       /\ \A p \in Procs : task'[p].registered => task'[p].schema_log_id = None
       /\ logs' # logs =>
            /\ ServedAlone
            /\ Registered(logs, EntryOf(1)'.author, EntryOf(1)'.schema) = {}]_vars

\* Both schemas are mapped, and a later entry was published under a mapping
\* found in the registry, which it left alone.
C9_Witness ==
    /\ Cardinality(logs) = 2
    /\ Succeeded(1) /\ EntryOf(1).seq_num = 2
    /\ task[1].schema_log_id = Some(EntryOf(1).log_id)
    /\ ~task[1].registered

\* C10: two concurrent requests that carry different entries for the same
\* position of the same log never both succeed.
C10_NoCollidingSuccess ==
    \A p, q \in Procs :
        (/\ p # q
         /\ Returned(p) /\ Returned(q)
         /\ task[p].overlap /\ task[q].overlap
         /\ EntryOf(p) # EntryOf(q)
         /\ EntryOf(p).author = EntryOf(q).author
         /\ EntryOf(p).log_id = EntryOf(q).log_id
         /\ EntryOf(p).seq_num = EntryOf(q).seq_num)
        => ~(Succeeded(p) /\ Succeeded(q))

\* The registry row a first entry's publish writes.
MappingOf(e) == [author |-> e.author, schema |-> e.schema, log_id |-> e.log_id]

\* C11: a publish commits fully or not at all: in no state another request can
\* read does the registry hold a mapping written by a publish while the entry
\* store lacks the entry that publish carries.
C11_NoPartialCommit ==
    \A p \in Procs :
        (/\ task[p].pc # "idle"
         /\ task[p].registered
         /\ MappingOf(EntryOf(p)) \in logs)
        => EntryOf(p) \in Rows(entries)

\* The rows the table of a schema holds for a record id.
RowsOf(tb, schema, id) ==
    IF TableName(schema) \in DOMAIN tb
    THEN {r \in tb[TableName(schema)] : r.id = id}
    ELSE {}

\* The event carries both fields as text.
HasTextFields(ev) ==
    /\ ev.message.fields # None
    /\ IsText(ev.message.fields[1], "message")
    /\ IsText(ev.message.fields[1], "date")

\* The row holds the field values and the seq_num of the event.
Holds(r, ev) ==
    /\ r.message = ev.message.fields[1]["message"].value
    /\ r.date = ev.message.fields[1]["date"].value
    /\ r.seq_num = ev.seq_num

\* C12: materializing the Create carried by the entry with hash X and then an
\* Update of record X with a greater seq_num leaves exactly one row with id X,
\* which holds the Update's field values and seq_num.
C12_CreateThenUpdateConverges ==
    [][(applied # None /\ applied' # None) =>
        LET c == applied[1].event
            u == applied'[1].event
        IN  (/\ u.message.action = "Update"
             /\ HasTextFields(u)
             /\ FollowsCreate(applied[1], u))
            => /\ applied'[1].result = "Ok"
               /\ Cardinality(RowsOf(tables', u.message.schema, c.entry_hash)) = 1
               /\ \A r \in RowsOf(tables', u.message.schema, c.entry_hash) : Holds(r, u)]_vars

\* C13: materializing the same Update event a second time leaves the schema
\* table as the first application left it: the row is unchanged and no second
\* row is created.
C13_UpdateReplayed ==
    [][(/\ applied' # None
        /\ applied'[1].prior = "same"
        /\ applied'[1].event.message.action = "Update")
       => tables' = tables]_vars

\* An Update was materialized twice in a row, and the one row of its record
\* holds its field values and its seq_num.
C13_Witness ==
    /\ applied # None
    /\ applied[1].prior = "same"
    /\ applied[1].event.message.action = "Update"
    /\ HasTextFields(applied[1].event)
    /\ LET ev == applied[1].event
           rows == RowsOf(tables, ev.message.schema, ev.message.id[1])
       IN  Cardinality(rows) = 1 /\ \A r \in rows : Holds(r, ev)

C15_AbsentOnlyCreated ==
    [][(applied' # None /\ applied'[1].event.message.action \in {"Update", "Delete"}) =>
        LET u == applied'[1].event
        IN  RowsOf(tables, u.message.schema, u.message.id[1]) = {}
            => /\ RowsOf(tables', u.message.schema, u.message.id[1]) = {}
               /\ applied'[1].result = "Err"]_vars

\* C16: materializing a Delete of a record that has a row takes the record out
\* of the reads of the schema table (and later events for the record do not
\* bring it back).
C16_DeleteRemoves ==
    [][(applied' # None /\ applied'[1].event.message.action = "Delete") =>
        LET d == applied'[1].event
        IN  RowsOf(tables, d.message.schema, d.message.id[1]) # {}
            => RowsOf(tables', d.message.schema, d.message.id[1]) = {}]_vars

\* C17: materialize on an event without fields, without the "message" or the
\* "date" field, or with one of them of a kind other than text, returns a
\* reported error, leaves the process running and changes no row.
C17_BadFieldsReported ==
    [][(applied' # None /\ ~HasTextFields(applied'[1].event)) =>
        /\ applied'[1].result = "Err"
        /\ running'
        /\ \A n \in DOMAIN tables : tables'[n] = tables[n]]_vars

\* The pair of the request has no log.
HasNoLog(params) == LogGet(logs, params.author, params.schema) = {None}

\* C18: panda_getEntryArguments writes nothing, and for a pair without a log
\* it answers with sequence number 1 and with backlink and skiplink absent.
C18_FreshPairArguments ==
    /\ entries = EmptyBag /\ logs = {} /\ tables = <<>>
    /\ \A c \in Clients :
        (call[c].result = "Ok" /\ HasNoLog(call[c].params[1]))
        => /\ call[c].response[1].last_seq_num = 1
           /\ call[c].response[1].encoded_entry_backlink = None
           /\ call[c].response[1].encoded_entry_skiplink = None

\* C19: every request with valid params sent to one ApiService gets its
\* response in the end, however many requests are sent.
C19_EveryRequestAnswered ==
    \A c \in Clients :
        (call[c].pc = "send") ~> (call[c].pc = "done" /\ call[c].result = "Ok")

\* Two requests served at the same time that carry first entries for one
\* (author, schema) pair under different log_ids.
RaceForLog(p, q) ==
    /\ p # q
    /\ task[p].pc # "idle" /\ task[q].pc # "idle"
    /\ task[p].overlap /\ task[q].overlap
    /\ EntryOf(p).seq_num = 1 /\ EntryOf(q).seq_num = 1
    /\ EntryOf(p).author = EntryOf(q).author
    /\ EntryOf(p).schema = EntryOf(q).schema
    /\ EntryOf(p).log_id # EntryOf(q).log_id

\* C20: two concurrent publishes of first entries for one (author, schema)
\* pair under different log_ids never both succeed: whatever the order of
\* their registry lookups and inserts, the registry holds at most one log_id
\* for the pair, and entries of the pair are stored under that log_id only.
C20_OneLogPerPair ==
    /\ \A p, q \in Procs : RaceForLog(p, q) => ~(Succeeded(p) /\ Succeeded(q))
    /\ \A a \in Authors, s \in Schemas :
        /\ Cardinality(Registered(logs, a, s)) <= 1
        /\ \A r \in Rows(entries) :
            (r.author = a /\ r.schema = s) => r.log_id \in Registered(logs, a, s)

\* Both requests found no log for the pair; one registered its log_id and
\* stored its entry, the other was refused by the registry.
C20_Witness ==
    \E p, q \in Procs :
        /\ RaceForLog(p, q)
        /\ task[p].schema_log_id = None /\ task[q].schema_log_id = None
        /\ Succeeded(p)
        /\ Returned(q) /\ task[q].result = "StorageFailure" /\ task[q].registered
        /\ Registered(logs, EntryOf(p).author, EntryOf(p).schema) = {EntryOf(p).log_id}
        /\ \A r \in Rows(entries) : r.log_id = EntryOf(p).log_id

\* The tables two calls leave when the second begins after the first returned.
OneAfterTheOther(tb, first, second) ==
    Materialize(Materialize(tb, first).tables, second).tables

\* C21: two materialize calls for events of one (schema, id) whose statements
\* interleave leave the tables in a state that the two calls run one after
\* the other, in one of the two orders, leave as well.
C21_Serializable ==
    (\A p \in Procs : calls[p].pc = "done") =>
        \/ tables = OneAfterTheOther(base, calls[1].event[1], calls[2].event[1])
        \/ tables = OneAfterTheOther(base, calls[2].event[1], calls[1].event[1])

\* Both calls read that the record has no row, and both went on to the INSERT
\* with different messages: one row was written, the other call was refused.
C21_Witness ==
    /\ \A p \in Procs : calls[p].pc = "done" /\ calls[p].count = 0
    /\ calls[1].result = "Err" /\ calls[2].result = "Ok"
    /\ HasTextFields(calls[1].event[1]) /\ HasTextFields(calls[2].event[1])
    /\ calls[1].event[1].message.fields # calls[2].event[1].message.fields
    /\ RowsOf(base, calls[1].event[1].message.schema, RowId(calls[1].event[1])) = {}
    /\ \A r \in RowsOf(tables, calls[2].event[1].message.schema, RowId(calls[2].event[1])) :
        Holds(r, calls[2].event[1])

\* C22: a log_id names the log of one (author, schema) pair: no two schemas of
\* one author are registered with the same log_id, and all entries stored
\* under one (author, log_id) carry messages of one schema.
C22_LogIdNamesOnePair ==
    /\ \A r, q \in logs :
        (r.author = q.author /\ r.log_id = q.log_id) => r.schema = q.schema
    /\ \A r, q \in Rows(entries) :
        (r.author = q.author /\ r.log_id = q.log_id) => r.schema = q.schema

====
